---- MODULE Spec2Model ----
(***************************************************************************)
(* A model of pplx_api.py: the validated request (PerplexityRequest), the  *)
(* two call variants of PerplexityClient (chat_completion and              *)
(* async_chat_completion) and the two stream accumulators                  *)
(* (_handle_stream_response and _handle_async_stream_response).            *)
(*                                                                         *)
(* Encoding.  A JSON object / Python dict is a TLA+ function with a string *)
(* domain (a record), a JSON array / Python list is a sequence (Python     *)
(* index 0 is TLA+ index 1), a JSON string is a string, and every other    *)
(* JSON scalar that the code only stores is kept as its literal text       *)
(* ("5", "1700000000").  Python's None is the string "None".  Floats of    *)
(* the request are counted in tenths (temperature 1.9 is 19).  An optional *)
(* value is a sequence of length at most one: <<>> is "absent", <<v>> is v. *)
(***************************************************************************)
EXTENDS Integers, Sequences, FiniteSets, TLC

VARIABLES
    pc,                     \* position of the caller / of the running call
    args,                   \* keyword arguments given to PerplexityRequest(...)
    request,                \* the constructed PerplexityRequest, <<>> if none
    validation_errors,      \* fields named by the pydantic ValidationError
    posted,                 \* JSON bodies handed to the HTTP transport
    mode,                   \* "sync": chat_completion, "async": async_chat_completion
    stream_callback,        \* "none", "sync" (plain function) or "async" (coroutine function)
    running_loop,           \* whether the calling thread has a running event loop
    lines,                  \* the lines the line source has yielded so far
    accumulated_response,   \* the accumulator's local dict
    calls,                  \* fragments the callback was called with, in call order
    started,                \* fragments whose callback body began to execute
    finished,               \* fragments whose callback body ran to completion
    tasks,                  \* tasks created on the running loop, not yet started
    result,                 \* what the call returned, <<>> before / without a return
    error,                  \* the exception that left the call, <<>> if none
    api_key,                \* the api_key argument of PerplexityClient(...), <<>> if None
    environ,                \* os.environ.get("PERPLEXITY_API_KEY"), <<>> if unset
    self_api_key            \* self.api_key of the client, <<>> while there is no client

vars == <<pc, args, request, validation_errors, posted, mode, stream_callback,
          running_loop, lines, accumulated_response, calls, started, finished,
          tasks, result, error, api_key, environ, self_api_key>>

None == "None"

\* Optional[T]: <<>> is None, <<v>> is v.
Nothing == <<>>
Some(v) == <<v>>

(***************************************************************************)
(* Bounds                                                                  *)
(***************************************************************************)
MaxLines == 3       \* lines the line source yields in one call
MaxKwargs == 2      \* optional keyword arguments given to PerplexityRequest(...)

(***************************************************************************)
(* Python dict operations on records                                       *)
(***************************************************************************)
\* d.update(e): the keys of e are added to d or overwrite d's.
dict_update(d, e) ==
    [k \in DOMAIN d \cup DOMAIN e |-> IF k \in DOMAIN e THEN e[k] ELSE d[k]]

\* {k: v for k, v in d.items() if k not in keys}
dict_without(d, keys) ==
    [k \in DOMAIN d \ keys |-> d[k]]

\* d.get(k, default)
dict_get(d, k, default) ==
    IF k \in DOMAIN d THEN d[k] ELSE default

(***************************************************************************)
(* The line source.  A line is blank, a non-blank line without the         *)
(* "data: " prefix, or "data: " followed by a payload.  A payload is text  *)
(* that is no JSON document ("[DONE]", "{not json") or a JSON document,    *)
(* held as the value it denotes.                                           *)
(***************************************************************************)
DONE == "[DONE]"

BlankLine == [kind |-> "blank"]
CommentLine == [kind |-> "other", text |-> ": keep-alive"]
DataLine(p) == [kind |-> "data", payload |-> p]
DoneLine == DataLine([text |-> DONE])
MalformedLine == DataLine([text |-> "{not json"])

Usage5 == [total_tokens |-> "5"]
Usage9 == [prompt_tokens |-> "1", completion_tokens |-> "8", total_tokens |-> "9"]

\* Chunks of the shape the service sends: choices[0].delta is present.
ChunkHel ==
    [id |-> "r1", model |-> "sonar", object |-> "chat.completion.chunk",
     created |-> "1700000000",
     choices |-> <<[index |-> 0, finish_reason |-> None,
                    delta |-> [role |-> "assistant", content |-> "Hel"]]>>]
ChunkLo ==
    [id |-> "r1", choices |-> <<[index |-> 0, delta |-> [content |-> "lo"]]>>,
     usage |-> Usage5]
ChunkStop ==
    [id |-> "r2", choices |-> <<[index |-> 0, finish_reason |-> "stop",
                                 delta |-> [content |-> ""]]>>,
     usage |-> Usage9]
ChunkNoContent ==
    [choices |-> <<[index |-> 0, finish_reason |-> "length",
                    delta |-> [role |-> "assistant"]]>>]
ChunkBang ==
    [choices |-> <<[index |-> 0, delta |-> [content |-> "!"]]>>]
\* JSON objects that lack a part of that path.
ChunkNoChoices == [id |-> "r3", usage |-> Usage5]
ChunkEmptyChoices == [id |-> "r3", choices |-> <<>>]
ChunkNoDelta == [choices |-> <<[index |-> 0, finish_reason |-> "stop"]>>]

WellFormedChunks == {ChunkHel, ChunkLo, ChunkStop, ChunkNoContent, ChunkBang}
Chunks == WellFormedChunks \cup {ChunkNoChoices, ChunkEmptyChoices, ChunkNoDelta}

Lines ==
    {BlankLine, CommentLine, DoneLine, MalformedLine}
        \cup {DataLine([json |-> c]) : c \in Chunks}

\* if line: ... event_data.startswith("data: ")
is_data_line(line) == line.kind = "data"

\* json.loads(data): the parsed value, or JSONDecodeError.
json_loads(data) ==
    IF "json" \in DOMAIN data
    THEN [exc |-> None, value |-> data.json]
    ELSE [exc |-> "JSONDecodeError", value |-> None]

(***************************************************************************)
(* The accumulated response                                                *)
(***************************************************************************)
Skeleton ==
    [id |-> None, model |-> None, object |-> "chat.completion", created |-> None,
     choices |-> <<[index |-> 0, finish_reason |-> None,
                    message |-> [role |-> "assistant", content |-> ""],
                    delta |-> [role |-> "assistant", content |-> ""]]>>,
     usage |-> [prompt_tokens |-> None, completion_tokens |-> None,
                total_tokens |-> None]]

\* chunk["choices"][0]["delta"].get("content", ""): the fragment, or the
\* exception the subscripts raise.
chunk_content(chunk) ==
    IF "choices" \notin DOMAIN chunk THEN [exc |-> "KeyError", content |-> ""]
    ELSE IF Len(chunk.choices) = 0 THEN [exc |-> "IndexError", content |-> ""]
    ELSE IF "delta" \notin DOMAIN chunk.choices[1]
    THEN [exc |-> "KeyError", content |-> ""]
    ELSE [exc |-> None, content |-> dict_get(chunk.choices[1].delta, "content", "")]

(***************************************************************************)
(* _handle_stream_response, one chunk (the body of its try block up to     *)
(* the callback)                                                           *)
(***************************************************************************)
\* accumulated_response.update({k: v ... if k not in ["choices", "usage"]})
sync_update_top(acc, chunk) ==
    dict_update(acc, dict_without(chunk, {"choices", "usage"}))

\* content = chunk["choices"][0]["delta"].get("content", "")
sync_content(chunk) ==
    chunk_content(chunk)

\* (mutant) the delta keeps only the latest fragment
sync_append_latest(acc, content) ==
    [acc EXCEPT !.choices[1].delta.content = content,
                !.choices[1].message.content = @ \o content]

\* ...["delta"]["content"] += content ; ...["message"]["content"] += content
sync_append(acc, content) ==
    [acc EXCEPT !.choices[1].delta.content = @ \o content,
                !.choices[1].message.content = @ \o content]

\* (mutant) the finish reason is read with .get and so cleared when absent
sync_finish_reason_get(acc, chunk) ==
    [acc EXCEPT !.choices[1].finish_reason =
                    dict_get(chunk.choices[1], "finish_reason", None)]

\* if "finish_reason" in chunk["choices"][0]: ...
sync_finish_reason(acc, chunk) ==
    IF "finish_reason" \in DOMAIN chunk.choices[1]
    THEN [acc EXCEPT !.choices[1].finish_reason = chunk.choices[1].finish_reason]
    ELSE acc

\* (mutant) the usage is merged key by key instead of replaced
sync_usage_merged(acc, chunk) ==
    IF "usage" \in DOMAIN chunk
    THEN [acc EXCEPT !.usage = dict_update(@, chunk.usage)]
    ELSE acc

\* if "usage" in chunk: accumulated_response["usage"] = chunk["usage"]
sync_usage(acc, chunk) ==
    IF "usage" \in DOMAIN chunk
    THEN [acc EXCEPT !.usage = chunk.usage]
    ELSE acc

\* (mutant) the fragment is handed on before anything of the chunk's choices
\* and usage is merged
sync_merge_chunk_callback_first(acc, parsed) ==
    LET chunk == parsed.value
        a1 == sync_update_top(acc, chunk)
        c == sync_content(chunk)
    IN  IF c.exc # None
        THEN [exc |-> c.exc, content |-> "", acc |-> a1]
        ELSE [exc |-> None, content |-> c.content, acc |-> a1]

\* The statements of the try block before the callback, in order; an
\* exception leaves the dict as the statements before it made it.
sync_merge_chunk(acc, parsed) ==
    LET chunk == parsed.value
        a1 == sync_update_top(acc, chunk)
        c == sync_content(chunk)
    IN  IF c.exc # None
        THEN [exc |-> c.exc, content |-> "", acc |-> a1]
        ELSE [exc |-> None, content |-> c.content,
              acc |-> sync_usage(
                          sync_finish_reason(sync_append(a1, c.content), chunk),
                          chunk)]

\* (mutant) JSONDecodeError is not caught and ends the loop
sync_line_decode_error_raised(acc, line) ==
    IF ~is_data_line(line) THEN [exc |-> None, content |-> "", acc |-> acc]
    ELSE IF "text" \in DOMAIN line.payload /\ line.payload.text = DONE
    THEN [exc |-> None, content |-> "", acc |-> acc]
    ELSE LET parsed == json_loads(line.payload)
         IN  IF parsed.exc = "JSONDecodeError"
             THEN [exc |-> "JSONDecodeError", content |-> "", acc |-> acc]
             ELSE sync_merge_chunk(acc, parsed)

\* One iteration of "for line in response.iter_lines()" up to the callback:
\* what the line does to the dict, the fragment to notify, the exception.
sync_line(acc, line) ==
    IF ~is_data_line(line) THEN [exc |-> None, content |-> "", acc |-> acc]
    ELSE IF "text" \in DOMAIN line.payload /\ line.payload.text = DONE
    THEN [exc |-> None, content |-> "", acc |-> acc]
    ELSE LET parsed == json_loads(line.payload)
         IN  IF parsed.exc = "JSONDecodeError"
             THEN [exc |-> None, content |-> "", acc |-> acc]
             ELSE sync_merge_chunk(acc, parsed)

(***************************************************************************)
(* _handle_async_stream_response, one chunk (the body of its try block up  *)
(* to the callback)                                                        *)
(***************************************************************************)
\* accumulated_response.update({k: v ... if k not in ["choices", "usage"]})
async_update_top(acc, chunk) ==
    dict_update(acc, dict_without(chunk, {"choices", "usage"}))

\* content = chunk["choices"][0]["delta"].get("content", "")
async_content(chunk) ==
    chunk_content(chunk)

\* (mutant) the non-blocking handler appends to the message only
async_append_message_only(acc, content) ==
    [acc EXCEPT !.choices[1].message.content = @ \o content]

\* ...["delta"]["content"] += content ; ...["message"]["content"] += content
async_append(acc, content) ==
    [acc EXCEPT !.choices[1].delta.content = @ \o content,
                !.choices[1].message.content = @ \o content]

\* if "finish_reason" in chunk["choices"][0]: ...
async_finish_reason(acc, chunk) ==
    IF "finish_reason" \in DOMAIN chunk.choices[1]
    THEN [acc EXCEPT !.choices[1].finish_reason = chunk.choices[1].finish_reason]
    ELSE acc

\* if "usage" in chunk: accumulated_response["usage"] = chunk["usage"]
async_usage(acc, chunk) ==
    IF "usage" \in DOMAIN chunk
    THEN [acc EXCEPT !.usage = chunk.usage]
    ELSE acc

\* The statements of the try block before the callback, in order; an
\* exception leaves the dict as the statements before it made it.
async_merge_chunk(acc, parsed) ==
    LET chunk == parsed.value
        a1 == async_update_top(acc, chunk)
        c == async_content(chunk)
    IN  IF c.exc # None
        THEN [exc |-> c.exc, content |-> "", acc |-> a1]
        ELSE [exc |-> None, content |-> c.content,
              acc |-> async_usage(
                          async_finish_reason(async_append(a1, c.content), chunk),
                          chunk)]

\* One iteration of "async for line in response.content" up to the callback:
\* what the line does to the dict, the fragment to notify, the exception.
async_line(acc, line) ==
    IF ~is_data_line(line) THEN [exc |-> None, content |-> "", acc |-> acc]
    ELSE IF "text" \in DOMAIN line.payload /\ line.payload.text = DONE
    THEN [exc |-> None, content |-> "", acc |-> acc]
    ELSE LET parsed == json_loads(line.payload)
         IN  IF parsed.exc = "JSONDecodeError"
             THEN [exc |-> None, content |-> "", acc |-> acc]
             ELSE async_merge_chunk(acc, parsed)

(***************************************************************************)
(* PerplexityRequest                                                       *)
(***************************************************************************)
\* Field(..., ge=, lt=, le=, max_length=), floats in tenths.
TemperatureGe == 0
TemperatureLt == 20
TopPGe == 0
TopPLe == 10
TopKGe == 0
TopKLe == 2048
PresencePenaltyGe == -20
PresencePenaltyLe == 20
FrequencyPenaltyGe == 0
SearchDomainFilterMaxLength == 3

DefaultModel == "llama-3.1-sonar-large-128k-online"
DefaultTemperature == 2
DefaultTopP == 9
DefaultTopK == 0
DefaultPresencePenalty == 0
DefaultFrequencyPenalty == 10

RecencyFilters == {"month", "week", "day", "hour"}

UserMessage == [role |-> "user", content |-> "What is Kamiwaza.AI?"]

Fields ==
    {"model", "messages", "max_tokens", "temperature", "top_p", "return_citations",
     "search_domain_filter", "return_images", "return_related_questions",
     "search_recency_filter", "top_k", "stream", "presence_penalty",
     "frequency_penalty"}

\* The fields declared Optional[...] = None.
OptionalFields == {"max_tokens", "search_domain_filter", "search_recency_filter"}

\* The keyword arguments a caller may give: per key <<>> (not given) or
\* <<value>>.  "extra" stands for a keyword that is no field of the model.
Kwargs ==
    [messages : {<<>>, <<<<>>>>, <<<<UserMessage>>>>},
     max_tokens : {<<>>, <<Nothing>>, <<Some(-1)>>, <<Some(0)>>, <<Some(1)>>},
     temperature : {<<>>, <<-1>>, <<0>>, <<19>>, <<20>>},
     top_p : {<<>>, <<-1>>, <<0>>, <<10>>, <<11>>},
     top_k : {<<>>, <<-1>>, <<0>>, <<2048>>, <<2049>>},
     presence_penalty : {<<>>, <<-21>>, <<-20>>, <<20>>, <<21>>},
     frequency_penalty : {<<>>, <<-1>>, <<0>>, <<25>>},
     search_domain_filter : {<<>>, <<Some(<<"a.com", "b.com", "c.com">>)>>,
                             <<Some(<<"a.com", "b.com", "c.com", "d.com">>)>>},
     search_recency_filter : {<<>>, <<Some("day")>>, <<Some("year")>>},
     stream : {<<>>, <<FALSE>>},
     extra : {<<>>, <<"x">>}]

NoKwargs == [k \in {"messages", "max_tokens", "temperature", "top_p", "top_k",
                    "presence_penalty", "frequency_penalty", "search_domain_filter",
                    "search_recency_filter", "stream", "extra"} |-> <<>>]

given(kw) == {k \in DOMAIN kw : kw[k] # <<>>}

\* The keyword arguments with at most MaxKwargs of them besides messages.
BoundedKwargs == {kw \in Kwargs : Cardinality(given(kw) \ {"messages"}) <= MaxKwargs}

\* validate_search_recency_filter
validate_search_recency_filter(v) ==
    ~(v # Nothing /\ v[1] \notin RecencyFilters)

\* (mutant) le=2 in place of lt=2
temperature_ok_le(v) == v >= TemperatureGe /\ v <= TemperatureLt

\* temperature: float = Field(default=0.2, ge=0, lt=2)
temperature_ok(v) == v >= TemperatureGe /\ v < TemperatureLt

\* top_p: float = Field(default=0.9, ge=0, le=1)
top_p_ok(v) == v >= TopPGe /\ v <= TopPLe

\* top_k: int = Field(default=0, ge=0, le=2048)
top_k_ok(v) == v >= TopKGe /\ v <= TopKLe

\* presence_penalty: float = Field(default=0, ge=-2, le=2)
presence_penalty_ok(v) == v >= PresencePenaltyGe /\ v <= PresencePenaltyLe

\* frequency_penalty: float = Field(default=1, ge=0)
frequency_penalty_ok(v) == v >= FrequencyPenaltyGe

\* max_tokens: Optional[int] = None
max_tokens_ok(v) == TRUE

\* search_domain_filter: Optional[List[str]] = Field(default=None, max_length=3)
search_domain_filter_ok(v) == v = Nothing \/ Len(v[1]) <= SearchDomainFilterMaxLength

\* The fields pydantic reports: a required field missing, a value outside
\* the Field constraints, the field_validator raising, an extra keyword.
field_errors(kw) ==
    {k \in DOMAIN kw :
        \/ k = "messages" /\ kw[k] = <<>>
        \/ /\ kw[k] # <<>>
           /\ CASE k = "temperature" -> ~temperature_ok(kw[k][1])
                [] k = "top_p" -> ~top_p_ok(kw[k][1])
                [] k = "top_k" -> ~top_k_ok(kw[k][1])
                [] k = "presence_penalty" -> ~presence_penalty_ok(kw[k][1])
                [] k = "frequency_penalty" -> ~frequency_penalty_ok(kw[k][1])
                [] k = "max_tokens" -> ~max_tokens_ok(kw[k][1])
                [] k = "search_domain_filter" -> ~search_domain_filter_ok(kw[k][1])
                [] k = "search_recency_filter" -> ~validate_search_recency_filter(kw[k][1])
                [] k = "extra" -> TRUE
                [] OTHER -> FALSE}

\* The value of a field: the argument if given, else the declared default.
field_value(kw, k, default) ==
    IF k \in DOMAIN kw /\ kw[k] # <<>> THEN kw[k][1] ELSE default

\* PerplexityRequest(**kw) when validation passes.
PerplexityRequest(kw) ==
    [model |-> DefaultModel,
     messages |-> field_value(kw, "messages", <<>>),
     max_tokens |-> field_value(kw, "max_tokens", Nothing),
     temperature |-> field_value(kw, "temperature", DefaultTemperature),
     top_p |-> field_value(kw, "top_p", DefaultTopP),
     return_citations |-> FALSE,
     search_domain_filter |-> field_value(kw, "search_domain_filter", Nothing),
     return_images |-> FALSE,
     return_related_questions |-> FALSE,
     search_recency_filter |-> field_value(kw, "search_recency_filter", Nothing),
     top_k |-> field_value(kw, "top_k", DefaultTopK),
     stream |-> field_value(kw, "stream", TRUE),
     presence_penalty |-> field_value(kw, "presence_penalty", DefaultPresencePenalty),
     frequency_penalty |-> field_value(kw, "frequency_penalty", DefaultFrequencyPenalty)]

\* (mutant) model_dump() without exclude_none: None values are emitted
model_dump_with_none(r) ==
    [k \in DOMAIN r |-> r[k]]

\* request.model_dump(exclude_none=True): every field whose value is not
\* None, Optional values unwrapped.
model_dump(r) ==
    [k \in {f \in DOMAIN r : ~(f \in OptionalFields /\ r[f] = Nothing)} |->
        IF k \in OptionalFields THEN r[k][1] ELSE r[k]]

(***************************************************************************)
(* Callback dispatch.  cb is the record of the four callback logs.         *)
(***************************************************************************)
CallbackLogs == [calls |-> calls, started |-> started, finished |-> finished,
                 tasks |-> tasks]

\* A callback called and run to completion before the caller goes on.
run_inline(cb, content) ==
    [cb EXCEPT !.calls = Append(@, content), !.started = Append(@, content),
               !.finished = Append(@, content)]

\* (mutant) the coroutine is run to completion whether a loop runs or not
handle_async_callback_run_inline(cb, content, loop) == run_inline(cb, content)

\* _handle_async_callback: with a running loop the coroutine is made and
\* queued as a task; without one a new loop runs it to completion.
handle_async_callback(cb, content, loop) ==
    IF loop
    THEN [cb EXCEPT !.calls = Append(@, content), !.tasks = Append(@, content)]
    ELSE run_inline(cb, content)

\* (mutant) the callback is called for empty fragments too
sync_notify_always(cb, callback, content, loop) ==
    IF callback # "none"
    THEN IF callback = "async"
         THEN handle_async_callback(cb, content, loop)
         ELSE run_inline(cb, content)
    ELSE cb

\* if stream_callback and content: (blocking handler)
sync_notify(cb, callback, content, loop) ==
    IF callback # "none" /\ content # ""
    THEN IF callback = "async"
         THEN handle_async_callback(cb, content, loop)
         ELSE run_inline(cb, content)
    ELSE cb

\* (mutant) the coroutine is queued as a task and not awaited
async_notify_not_awaited(cb, callback, content) ==
    IF callback # "none" /\ content # ""
    THEN [cb EXCEPT !.calls = Append(@, content), !.tasks = Append(@, content)]
    ELSE cb

\* if stream_callback and content: await stream_callback(content)
\* The coroutine is made and begins to run; the handler is suspended.
async_notify(cb, callback, content) ==
    IF callback # "none" /\ content # ""
    THEN [cb EXCEPT !.calls = Append(@, content), !.started = Append(@, content)]
    ELSE cb

(***************************************************************************)
(* The handlers as functions of the whole line sequence: the dict, the     *)
(* fragments the callback was called with, and the exception that ended    *)
(* the loop (None if it ran to the end).                                   *)
(***************************************************************************)
RECURSIVE sync_run(_, _)
sync_run(callback, ls) ==
    IF ls = <<>> THEN [acc |-> Skeleton, calls |-> <<>>, exc |-> None]
    ELSE LET before == sync_run(callback, SubSeq(ls, 1, Len(ls) - 1))
             r == sync_line(before.acc, ls[Len(ls)])
         IN  IF before.exc # None THEN before
             ELSE IF r.exc # None THEN [before EXCEPT !.acc = r.acc, !.exc = r.exc]
             ELSE [acc |-> r.acc, exc |-> None,
                   calls |-> IF callback # "none" /\ r.content # ""
                             THEN Append(before.calls, r.content)
                             ELSE before.calls]

RECURSIVE async_run(_, _)
async_run(callback, ls) ==
    IF ls = <<>> THEN [acc |-> Skeleton, calls |-> <<>>, exc |-> None]
    ELSE LET before == async_run(callback, SubSeq(ls, 1, Len(ls) - 1))
             r == async_line(before.acc, ls[Len(ls)])
         IN  IF before.exc # None THEN before
             ELSE IF r.exc # None THEN [before EXCEPT !.acc = r.acc, !.exc = r.exc]
             ELSE [acc |-> r.acc, exc |-> None,
                   calls |-> IF callback # "none" /\ r.content # ""
                             THEN Append(before.calls, r.content)
                             ELSE before.calls]

(***************************************************************************)
(* Exceptions                                                              *)
(***************************************************************************)
ErrorPrefix == "Error making request to Perplexity API: "
TimeoutMessage == "Request to Perplexity API timed out after 60 seconds"

Exception(kind, message, cause) ==
    [kind |-> kind, message |-> message, cause |-> cause]

\* What the transport does with a POST.
SyncOutcomes == {"ok", "Timeout", "ConnectionError", "HTTPError"}
AsyncOutcomes == {"ok", "TimeoutError", "ClientConnectorError", "ClientResponseError"}

\* The exception requests.post / raise_for_status raises: its class and its
\* own text.
requests_error(outcome) == Exception(outcome, outcome \o " raised by requests", <<>>)

\* The exception session.post / raise_for_status raises under aiohttp; the
\* total timeout raises asyncio.TimeoutError.
aiohttp_error(outcome) == Exception(outcome, outcome \o " raised by aiohttp", <<>>)

\* except requests.Timeout: raise RequestException(...) from None, then
\* except requests.RequestException as e: raise RequestException(prefix + str(e)) from e
sync_error(outcome) ==
    LET e == IF outcome = "Timeout"
             THEN Exception("RequestException", TimeoutMessage, <<>>)
             ELSE requests_error(outcome)
    IN  Exception("RequestException", ErrorPrefix \o e.message, <<e>>)

\* except aiohttp.ClientError as e: raise aiohttp.ClientError(prefix + str(e)) from e
\* asyncio.TimeoutError is no aiohttp.ClientError and passes through.
async_error(outcome) ==
    LET e == aiohttp_error(outcome)
    IN  IF outcome = "TimeoutError" THEN e
        ELSE Exception("ClientError", ErrorPrefix \o e.message, <<e>>)

(***************************************************************************)
(* Actions                                                                 *)
(***************************************************************************)
client_vars == <<api_key, environ, self_api_key>>

\* Python truth of an Optional[str]: None and "" are false.
truthy(v) == v # Nothing /\ v[1] # ""

\* (mutant) the environment value is taken first
resolve_api_key_environ_first(key, env) == IF truthy(env) THEN env ELSE key

\* api_key or os.environ.get("PERPLEXITY_API_KEY")
resolve_api_key(key, env) == IF truthy(key) THEN key ELSE env

ConfigurationMessage ==
    "API key must be provided either as a parameter or through the PERPLEXITY_API_KEY environment variable."

\* The credentials a caller may pass and the environment may hold.
ApiKeys == {Nothing, Some(""), Some("pplx-param")}
EnvironValues == {Nothing, Some(""), Some("pplx-env")}

\* client = PerplexityClient(api_key)
init_client ==
    /\ pc = "new"
    /\ \E key \in ApiKeys :
        /\ api_key' = key
        /\ IF truthy(resolve_api_key(key, environ))
           THEN /\ self_api_key' = resolve_api_key(key, environ)
                /\ pc' = "constructed"
                /\ UNCHANGED error
           ELSE /\ self_api_key' = Nothing
                /\ pc' = "config_error"
                /\ error' = Some(Exception("ValueError", ConfigurationMessage, <<>>))
    /\ UNCHANGED <<args, request, validation_errors, posted, mode, stream_callback,
                   running_loop, lines, accumulated_response, calls, started,
                   finished, tasks, result, environ>>

call_vars == <<mode, stream_callback, lines, accumulated_response, calls, started,
               finished, tasks, result, error, posted>>

\* request = PerplexityRequest(**kw)
construct_request ==
    /\ pc = "caller"
    /\ \E kw \in BoundedKwargs :
        /\ args' = kw
        /\ validation_errors' = field_errors(kw)
        /\ IF field_errors(kw) = {}
           THEN request' = Some(PerplexityRequest(kw)) /\ pc' = "constructed"
           ELSE request' = Nothing /\ pc' = "invalid"
    /\ UNCHANGED <<call_vars, running_loop>>
    /\ UNCHANGED client_vars

\* (mutant) the body is interpreted before the status is looked at
chat_completion_status_checked_last ==
    /\ pc = "constructed"
    /\ \E callback \in {"none", "sync", "async"}, outcome \in SyncOutcomes :
        /\ mode' = "sync"
        /\ stream_callback' = callback
        /\ posted' = Append(posted, model_dump(request[1]))
        /\ IF outcome \in {"Timeout", "ConnectionError"}
           THEN /\ pc' = "raised"
                /\ error' = Some(sync_error(outcome))
                /\ UNCHANGED <<accumulated_response, result>>
           ELSE /\ pc' = IF outcome # "ok" THEN "raised"
                         ELSE IF request[1].stream THEN "iter" ELSE "returned"
                /\ error' = IF outcome # "ok" THEN Some(sync_error(outcome)) ELSE error
                /\ IF request[1].stream
                   THEN accumulated_response' = Some(Skeleton) /\ UNCHANGED result
                   ELSE /\ result' = Some([body |-> "response.json()"])
                        /\ UNCHANGED accumulated_response
    /\ UNCHANGED <<args, request, validation_errors, running_loop, lines, calls,
                   started, finished, tasks>>
    /\ UNCHANGED client_vars

\* client.chat_completion(request, stream_callback) up to the stream loop
chat_completion ==
    /\ pc = "constructed"
    /\ \E callback \in {"none", "sync", "async"}, outcome \in SyncOutcomes :
        /\ mode' = "sync"
        /\ stream_callback' = callback
        /\ posted' = Append(posted, model_dump(request[1]))
        /\ IF outcome # "ok"
           THEN /\ pc' = "raised"
                /\ error' = Some(sync_error(outcome))
                /\ UNCHANGED <<accumulated_response, result>>
           ELSE IF request[1].stream
           THEN /\ pc' = "iter"
                /\ accumulated_response' = Some(Skeleton)
                /\ UNCHANGED <<error, result>>
           ELSE /\ pc' = "returned"
                /\ result' = Some([body |-> "response.json()"])
                /\ UNCHANGED <<accumulated_response, error>>
    /\ UNCHANGED <<args, request, validation_errors, running_loop, lines, calls,
                   started, finished, tasks>>
    /\ UNCHANGED client_vars

\* await client.async_chat_completion(request, stream_callback) up to the loop
async_chat_completion ==
    /\ pc = "constructed"
    /\ running_loop
    /\ \E callback \in {"none", "async"}, outcome \in AsyncOutcomes :
        /\ mode' = "async"
        /\ stream_callback' = callback
        /\ posted' = Append(posted, model_dump(request[1]))
        /\ IF outcome # "ok"
           THEN /\ pc' = "raised"
                /\ error' = Some(async_error(outcome))
                /\ UNCHANGED <<accumulated_response, result>>
           ELSE IF request[1].stream
           THEN /\ pc' = "iter"
                /\ accumulated_response' = Some(Skeleton)
                /\ UNCHANGED <<error, result>>
           ELSE /\ pc' = "returned"
                /\ result' = Some([body |-> "response.json()"])
                /\ UNCHANGED <<accumulated_response, error>>
    /\ UNCHANGED <<args, request, validation_errors, running_loop, lines, calls,
                   started, finished, tasks>>
    /\ UNCHANGED client_vars

\* _handle_stream_response: the line source yields a line
handle_stream_line ==
    /\ pc = "iter" /\ mode = "sync"
    /\ Len(lines) < MaxLines
    /\ \E line \in Lines :
        LET r == sync_line(accumulated_response[1], line)
            cb == sync_notify(CallbackLogs, stream_callback, r.content, running_loop)
        IN  /\ lines' = Append(lines, line)
            /\ accumulated_response' = Some(r.acc)
            /\ IF r.exc # None
               THEN /\ pc' = "raised"
                    /\ error' = Some(Exception(r.exc, "", <<>>))
                    /\ UNCHANGED <<calls, started, finished, tasks>>
               ELSE /\ pc' = "iter"
                    /\ calls' = cb.calls /\ started' = cb.started
                    /\ finished' = cb.finished /\ tasks' = cb.tasks
                    /\ UNCHANGED error
    /\ UNCHANGED <<args, request, validation_errors, posted, mode, stream_callback,
                   running_loop, result>>
    /\ UNCHANGED client_vars

\* _handle_stream_response: the line source is exhausted
handle_stream_end ==
    /\ pc = "iter" /\ mode = "sync"
    /\ pc' = "returned"
    /\ result' = accumulated_response
    /\ UNCHANGED <<args, request, validation_errors, posted, mode, stream_callback,
                   running_loop, lines, accumulated_response, calls, started,
                   finished, tasks, error>>
    /\ UNCHANGED client_vars

\* _handle_async_stream_response: the line source yields a line
handle_async_stream_line ==
    /\ pc = "iter" /\ mode = "async"
    /\ Len(lines) < MaxLines
    /\ \E line \in Lines :
        LET r == async_line(accumulated_response[1], line)
            cb == async_notify(CallbackLogs, stream_callback, r.content)
        IN  /\ lines' = Append(lines, line)
            /\ accumulated_response' = Some(r.acc)
            /\ IF r.exc # None
               THEN /\ pc' = "raised"
                    /\ error' = Some(Exception(r.exc, "", <<>>))
                    /\ UNCHANGED <<calls, started, finished, tasks>>
               ELSE /\ pc' = IF cb.started # started THEN "callback" ELSE "iter"
                    /\ calls' = cb.calls /\ started' = cb.started
                    /\ finished' = cb.finished /\ tasks' = cb.tasks
                    /\ UNCHANGED error
    /\ UNCHANGED <<args, request, validation_errors, posted, mode, stream_callback,
                   running_loop, result>>
    /\ UNCHANGED client_vars

\* the awaited callback completes and the handler resumes
async_callback_returns ==
    /\ pc = "callback"
    /\ finished' = Append(finished, started[Len(started)])
    /\ pc' = "iter"
    /\ UNCHANGED <<args, request, validation_errors, posted, mode, stream_callback,
                   running_loop, lines, accumulated_response, calls, started, tasks,
                   result, error>>
    /\ UNCHANGED client_vars

\* _handle_async_stream_response: the line source is exhausted
handle_async_stream_end ==
    /\ pc = "iter" /\ mode = "async"
    /\ pc' = "returned"
    /\ result' = accumulated_response
    /\ UNCHANGED <<args, request, validation_errors, posted, mode, stream_callback,
                   running_loop, lines, accumulated_response, calls, started,
                   finished, tasks, error>>
    /\ UNCHANGED client_vars

\* (mutant) the loop runs a task while the blocking handler is still iterating
run_task_during_stream ==
    /\ tasks # <<>>
    /\ started' = Append(started, Head(tasks))
    /\ finished' = Append(finished, Head(tasks))
    /\ tasks' = Tail(tasks)
    /\ UNCHANGED <<pc, args, request, validation_errors, posted, mode,
                   stream_callback, running_loop, lines, accumulated_response,
                   calls, result, error>>
    /\ UNCHANGED client_vars

\* after the blocking call has left, the running loop runs the next task
run_task ==
    /\ pc \in {"returned", "raised"}
    /\ tasks # <<>>
    /\ started' = Append(started, Head(tasks))
    /\ finished' = Append(finished, Head(tasks))
    /\ tasks' = Tail(tasks)
    /\ UNCHANGED <<pc, args, request, validation_errors, posted, mode,
                   stream_callback, running_loop, lines, accumulated_response,
                   calls, result, error>>
    /\ UNCHANGED client_vars

(***************************************************************************)
(* Specifications                                                          *)
(***************************************************************************)
Idle ==
    /\ posted = <<>> /\ mode = "none" /\ stream_callback = "none"
    /\ lines = <<>> /\ accumulated_response = Nothing
    /\ calls = <<>> /\ started = <<>> /\ finished = <<>> /\ tasks = <<>>
    /\ result = Nothing /\ error = Nothing
    /\ validation_errors = {}

\* A client made with an explicit key.
HasClient ==
    /\ api_key = Some("pplx-param") /\ environ = Nothing
    /\ self_api_key = Some("pplx-param")

\* The caller is about to construct a request.
InitRequest ==
    /\ pc = "caller"
    /\ args = NoKwargs
    /\ request = Nothing
    /\ running_loop \in BOOLEAN
    /\ Idle
    /\ HasClient

NextRequest ==
    \/ construct_request
    \/ chat_completion
    \/ async_chat_completion

SpecRequest == InitRequest /\ [][NextRequest]_vars

\* The caller holds a valid request and is about to call the client.
StreamKwargs ==
    {[NoKwargs EXCEPT !.messages = <<<<UserMessage>>>>, !.stream = s] :
        s \in {<<>>, <<FALSE>>}}

Init ==
    /\ pc = "constructed"
    /\ \E kw \in StreamKwargs : args = kw /\ request = Some(PerplexityRequest(kw))
    /\ running_loop \in BOOLEAN
    /\ Idle
    /\ HasClient

Next ==
    \/ chat_completion
    \/ async_chat_completion
    \/ handle_stream_line
    \/ handle_stream_end
    \/ handle_async_stream_line
    \/ async_callback_returns
    \/ handle_async_stream_end
    \/ run_task

Spec == Init /\ [][Next]_vars

\* The caller holds a valid request and is about to construct the client,
\* then makes one call.
InitClient ==
    /\ pc = "new"
    /\ \E kw \in StreamKwargs : args = kw /\ request = Some(PerplexityRequest(kw))
    /\ running_loop \in BOOLEAN
    /\ Idle
    /\ api_key = Nothing /\ self_api_key = Nothing
    /\ environ \in EnvironValues

NextClient ==
    \/ init_client
    \/ chat_completion
    \/ async_chat_completion

SpecClient == InitClient /\ [][NextClient]_vars

(***************************************************************************)
(* Vocabulary of the properties                                            *)
(***************************************************************************)
\* The accumulator has been entered (its dict exists).
Streaming == accumulated_response # Nothing
Acc == accumulated_response[1]
Returned == pc = "returned" /\ request[1].stream

\* A data line whose payload is a JSON object of the chunk shape
\* {choices: [{delta: {...}, ...}], ...}.
IsChunkLine(line) ==
    /\ line.kind = "data"
    /\ "json" \in DOMAIN line.payload
    /\ "choices" \in DOMAIN line.payload.json
    /\ Len(line.payload.json.choices) > 0
    /\ "delta" \in DOMAIN line.payload.json.choices[1]

ChunkOf(line) == line.payload.json

\* The fragment a line carries: choices[0].delta.content of a chunk, else "".
Fragment(line) ==
    IF IsChunkLine(line) /\ "content" \in DOMAIN ChunkOf(line).choices[1].delta
    THEN ChunkOf(line).choices[1].delta.content
    ELSE ""

RECURSIVE Concat(_)
Concat(ss) == IF ss = <<>> THEN "" ELSE Head(ss) \o Concat(Tail(ss))

Fragments(ls) == [i \in 1..Len(ls) |-> Fragment(ls[i])]
NonEmpty(ss) == SelectSeq(ss, LAMBDA f : f # "")

\* t is s with one fragment appended.
Appends(s, t) == \E l \in Lines : t = s \o Fragment(l)

\* The lines before the first "[DONE]" line.
RECURSIVE BeforeDone(_)
BeforeDone(ls) ==
    IF ls = <<>> \/ Head(ls) = DoneLine THEN <<>>
    ELSE <<Head(ls)>> \o BeforeDone(Tail(ls))

\* The pure run of the handler the call uses.
Run(ls) ==
    IF mode = "sync" THEN sync_run(stream_callback, ls)
    ELSE async_run(stream_callback, ls)

(***************************************************************************)
(* C1.  While a stream is consumed and when it is returned, message.content *)
(* is the concatenation, in arrival order, of the fragments of the chunks  *)
(* consumed so far, delta.content equals message.content, and each step    *)
(* changes both only by appending a fragment.                              *)
(***************************************************************************)
C1_State ==
    Streaming =>
        /\ Acc.choices[1].message.content = Concat(Fragments(lines))
        /\ Acc.choices[1].delta.content = Acc.choices[1].message.content
        /\ Returned => result[1].choices[1].message.content = Concat(Fragments(lines))

C1_Step ==
    (Streaming /\ accumulated_response' # accumulated_response) =>
        /\ Appends(Acc.choices[1].message.content,
                   accumulated_response'[1].choices[1].message.content)
        /\ Appends(Acc.choices[1].delta.content,
                   accumulated_response'[1].choices[1].delta.content)

C1_ContentIsConcatenation == []C1_State /\ [][C1_Step]_vars

C1_Witness ==
    /\ Returned
    /\ lines = <<DataLine([json |-> ChunkHel]), DataLine([json |-> ChunkLo]), DoneLine>>
    /\ result[1].choices[1].message.content = "Hello"
    /\ result[1].choices[1].delta.content = "Hello"

(***************************************************************************)
(* C2.  (as claimed) Consumption ends at the "[DONE]" line: what is        *)
(* returned, and what the callback was called with, is what the lines      *)
(* before the first "[DONE]" give; lines after it change nothing.          *)
(***************************************************************************)
C2_StopsAtDone ==
    Returned =>
        /\ result[1].choices[1].message.content = Concat(Fragments(BeforeDone(lines)))
        /\ stream_callback # "none" => calls = NonEmpty(Fragments(BeforeDone(lines)))

(***************************************************************************)
(* C3.  A data line whose payload is no JSON leaves the run as it was: the *)
(* dict, the fragments given to the callback and the outcome (running,     *)
(* returned value, exception) are those of the same lines with the         *)
(* malformed ones removed.                                                 *)
(***************************************************************************)
IsMalformed(line) ==
    line.kind = "data" /\ "text" \in DOMAIN line.payload /\ line.payload.text # DONE

WithoutMalformed(ls) == SelectSeq(ls, LAMBDA l : ~IsMalformed(l))

C3_MalformedLinesAreSkipped ==
    Streaming =>
        LET clean == Run(WithoutMalformed(lines))
        IN  /\ Acc = clean.acc
            /\ calls = clean.calls
            /\ (pc = "raised") = (clean.exc # None)
            /\ pc = "raised" => error[1].kind = clean.exc
            /\ Returned => result[1] = clean.acc

C3_Witness ==
    /\ Returned
    /\ stream_callback # "none"
    /\ lines = <<DataLine([json |-> ChunkHel]), MalformedLine, DataLine([json |-> ChunkLo])>>
    /\ result[1].choices[1].message.content = "Hello"
    /\ calls = <<"Hel", "lo">>

(***************************************************************************)
(* C4.  With a callback, the fragments it was called with are exactly the  *)
(* non-empty fragments of the chunks consumed, one call each, in arrival   *)
(* order; without one nothing is called.  In non-blocking mode each call   *)
(* has begun to run when it is made, so the bodies start in that order.    *)
(***************************************************************************)
C4_CallbackOncePerNonEmptyFragment ==
    Streaming =>
        /\ stream_callback # "none" => calls = NonEmpty(Fragments(lines))
        /\ stream_callback = "none" => calls = <<>>
        /\ mode = "async" => started = calls

C4_Witness ==
    /\ Returned
    /\ mode = "async" /\ stream_callback = "async"
    /\ lines = <<DataLine([json |-> ChunkStop]), DataLine([json |-> ChunkNoContent]),
                 DataLine([json |-> ChunkHel])>>
    /\ calls = <<"Hel">>
    /\ finished = <<"Hel">>

(***************************************************************************)
(* C5.  The accumulated usage is the usage object of the last consumed     *)
(* chunk that carries a usage key, as that chunk gave it (no key of an     *)
(* earlier usage survives), and the skeleton's three nulls if there was    *)
(* none.                                                                   *)
(***************************************************************************)
RECURSIVE LastUsage(_)
LastUsage(ls) ==
    IF ls = <<>> THEN [prompt_tokens |-> None, completion_tokens |-> None,
                       total_tokens |-> None]
    ELSE IF IsChunkLine(ls[Len(ls)]) /\ "usage" \in DOMAIN ChunkOf(ls[Len(ls)])
    THEN ChunkOf(ls[Len(ls)]).usage
    ELSE LastUsage(SubSeq(ls, 1, Len(ls) - 1))

C5_UsageIsLastWriter ==
    Streaming =>
        /\ Acc.usage = LastUsage(lines)
        /\ Returned => result[1].usage = LastUsage(lines)

C5_Witness ==
    /\ Returned
    /\ lines = <<DataLine([json |-> ChunkStop]), DataLine([json |-> ChunkLo]),
                 DataLine([json |-> ChunkBang])>>
    /\ result[1].usage = [total_tokens |-> "5"]

(***************************************************************************)
(* C6.  The accumulated finish_reason is None until a chunk carries the    *)
(* key, and then the value of the last consumed chunk whose first choice   *)
(* carries it; a chunk without the key leaves it as it was.                *)
(***************************************************************************)
RECURSIVE LastFinishReason(_)
LastFinishReason(ls) ==
    IF ls = <<>> THEN None
    ELSE IF IsChunkLine(ls[Len(ls)])
            /\ "finish_reason" \in DOMAIN ChunkOf(ls[Len(ls)]).choices[1]
    THEN ChunkOf(ls[Len(ls)]).choices[1].finish_reason
    ELSE LastFinishReason(SubSeq(ls, 1, Len(ls) - 1))

C6_FinishReasonIsLastWriter ==
    Streaming =>
        /\ Acc.choices[1].finish_reason = LastFinishReason(lines)
        /\ Returned => result[1].choices[1].finish_reason = LastFinishReason(lines)

C6_Witness ==
    /\ Returned
    /\ lines = <<DataLine([json |-> ChunkHel]), DataLine([json |-> ChunkStop]),
                 DataLine([json |-> ChunkLo])>>
    /\ result[1].choices[1].finish_reason = "stop"

(***************************************************************************)
(* C7.  (as claimed) Whatever lines a source without "[DONE]" yields, the  *)
(* handler does not raise; when the source ends it returns its dict, and   *)
(* that is what the same lines followed by "data: [DONE]" give.            *)
(***************************************************************************)
NoDone(ls) == \A i \in 1..Len(ls) : ls[i] # DoneLine

\* The run so far is the run of the same lines followed by "data: [DONE]".
SameAsWithDone ==
    LET r == Run(Append(lines, DoneLine))
    IN  /\ r.acc = Acc /\ r.calls = calls
        /\ (r.exc # None) = (pc = "raised")
        /\ Returned => result = accumulated_response

C7_EndWithoutDone ==
    (Streaming /\ NoDone(lines)) => (pc # "raised" /\ SameAsWithDone)

\* What does hold: the trailing "[DONE]" makes no difference, raising or not.
C7_DoneChangesNothing ==
    (Streaming /\ NoDone(lines)) => SameAsWithDone

(***************************************************************************)
(* Vocabulary of the request properties (floats in tenths)                 *)
(***************************************************************************)
NumericFields ==
    {"temperature", "top_p", "top_k", "presence_penalty", "frequency_penalty"}

\* The stated domain of a numeric field.
InDomain(k, v) ==
    CASE k = "temperature" -> 0 <= v /\ v < 20
      [] k = "top_p" -> 0 <= v /\ v <= 10
      [] k = "top_k" -> 0 <= v /\ v <= 2048
      [] k = "presence_penalty" -> -20 <= v /\ v <= 20
      [] k = "frequency_penalty" -> 0 <= v

OutOfDomain(kw) == {k \in NumericFields : kw[k] # <<>> /\ ~InDomain(k, kw[k][1])}

Constructed == pc # "caller"

(***************************************************************************)
(* C8.  Once PerplexityRequest(...) has run: if a numeric argument is      *)
(* outside its domain (temperature 2 included) there is a validation error *)
(* naming it, no request object and nothing posted; a numeric argument     *)
(* inside its domain, the inclusive bounds included, is never named, and   *)
(* with messages and only such arguments the request is constructed; every *)
(* posted body has its numeric fields inside their domains.                *)
(***************************************************************************)
C8_OutOfDomainIsRejected ==
    Constructed =>
        /\ OutOfDomain(args) # {} =>
               /\ pc = "invalid" /\ request = Nothing /\ posted = <<>>
               /\ OutOfDomain(args) \subseteq validation_errors
        /\ validation_errors \cap NumericFields \subseteq OutOfDomain(args)
        /\ (given(args) \subseteq NumericFields \cup {"messages"}
              /\ args.messages # <<>> /\ OutOfDomain(args) = {}) =>
               /\ request # Nothing
               /\ \A k \in given(args) \cap NumericFields : request[1][k] = args[k][1]
        /\ \A i \in 1..Len(posted) : \A k \in NumericFields : InDomain(k, posted[i][k])

C8_Witness ==
    /\ pc = "invalid"
    /\ args.temperature = <<20>> /\ args.top_k = <<2048>>
    /\ validation_errors = {"temperature"}
    /\ request = Nothing /\ posted = <<>>

(***************************************************************************)
(* C9.  (as claimed) max_tokens of a constructed request, when not None,   *)
(* is a positive integer.                                                  *)
(***************************************************************************)
C9_MaxTokensPositive ==
    request # Nothing =>
        (request[1].max_tokens = Nothing \/ request[1].max_tokens[1] > 0)

(***************************************************************************)
(* C10.  (as claimed) A posted body has no key the caller did not give.    *)
(***************************************************************************)
C10_OnlySuppliedKeys ==
    \A i \in 1..Len(posted) : DOMAIN posted[i] \subseteq given(args)

(***************************************************************************)
(* C10 (amended).  A posted body has no None value: an Optional field      *)
(* (max_tokens, search_domain_filter, search_recency_filter) is a key of   *)
(* it exactly when the caller gave a value other than None, and then with  *)
(* that value; every other field is always a key of it, with the caller's  *)
(* value if given and the declared default if not.                         *)
(***************************************************************************)
C10_NoneIsOmitted ==
    \A i \in 1..Len(posted) :
        LET body == posted[i]
        IN  /\ DOMAIN body \subseteq Fields
            /\ Fields \ OptionalFields \subseteq DOMAIN body
            /\ \A k \in OptionalFields :
                   /\ k \in DOMAIN body <=> (args[k] # <<>> /\ args[k][1] # Nothing)
                   /\ k \in DOMAIN body => body[k] = args[k][1][1]
            /\ \A k \in (Fields \ OptionalFields) \cap given(args) : body[k] = args[k][1]
            /\ body.temperature = (IF args.temperature = <<>> THEN 2 ELSE args.temperature[1])
            /\ body.stream = (IF args.stream = <<>> THEN TRUE ELSE args.stream[1])

C10_Witness ==
    /\ posted # <<>>
    /\ args.max_tokens = <<Nothing>> /\ args.search_recency_filter = <<Some("day")>>
    /\ "max_tokens" \notin DOMAIN posted[1]
    /\ "search_domain_filter" \notin DOMAIN posted[1]
    /\ posted[1].search_recency_filter = "day"

(***************************************************************************)
(* C11.  (as claimed) A call that failed in the transport (connection      *)
(* failure, the 60-second timeout, non-2xx status) carries, in both modes, *)
(* an error of the library's error kind whose message is the fixed prefix  *)
(* followed by the text of the error the transport raised, and whose cause *)
(* is that error.                                                          *)
(***************************************************************************)
TransportFailed == pc = "raised" /\ accumulated_response = Nothing

\* The error the transport raised for an outcome in the mode of the call.
TransportError(outcome) ==
    IF mode = "sync" THEN requests_error(outcome) ELSE aiohttp_error(outcome)

\* The base class the wrapper of a mode is raised as.
ErrorKind == IF mode = "sync" THEN "RequestException" ELSE "ClientError"

Wrapped(e) == Exception(ErrorKind, ErrorPrefix \o e.message, <<e>>)

C11_TransportFailuresAreWrapped ==
    TransportFailed =>
        \E outcome \in (IF mode = "sync" THEN SyncOutcomes ELSE AsyncOutcomes) \ {"ok"} :
            error[1] = Wrapped(TransportError(outcome))

(***************************************************************************)
(* C12.  (as claimed) Whenever an api_key argument is given, the client's  *)
(* key is that argument, whatever PERPLEXITY_API_KEY holds.                *)
(***************************************************************************)
ClientConstructed == pc \notin {"new", "config_error"}

C12_ExplicitKeyAlwaysWins ==
    (ClientConstructed /\ api_key # Nothing) => self_api_key = api_key

(***************************************************************************)
(* C12 (amended).  Construction of the client resolves the credential: an api_key    *)
(* argument that is a credential (neither None nor empty) is the client's  *)
(* key whatever PERPLEXITY_API_KEY holds; otherwise the environment value  *)
(* is, if it is a credential; if neither is, construction raises the       *)
(* configuration error, there is no client and nothing is ever posted.     *)
(***************************************************************************)
C12_CredentialResolution ==
    /\ pc = "new" => self_api_key = Nothing /\ posted = <<>>
    /\ ClientConstructed =>
          /\ truthy(self_api_key)
          /\ truthy(api_key) => self_api_key = api_key
          /\ ~truthy(api_key) => self_api_key = environ
          /\ error = Nothing \/ error[1].kind # "ValueError"
    /\ pc = "config_error" <=> (pc # "new" /\ ~truthy(api_key) /\ ~truthy(environ))
    /\ pc = "config_error" =>
          /\ self_api_key = Nothing
          /\ error = Some(Exception("ValueError", ConfigurationMessage, <<>>))
          /\ posted = <<>> /\ mode = "none" /\ result = Nothing
    /\ posted # <<>> => truthy(self_api_key)

\* Both sources hold a credential and the argument won; a request went out.
C12_Witness ==
    /\ api_key = Some("pplx-param") /\ environ = Some("pplx-env")
    /\ self_api_key = Some("pplx-param")
    /\ posted # <<>>

(***************************************************************************)
(* C13.  (as claimed) Every consumed line whose payload is JSON gives the  *)
(* fragment choices[0].delta.content, or "" when that path is absent (no   *)
(* content, no delta, no or empty choices): the content is the             *)
(* concatenation of these fragments, the callback was called with the      *)
(* non-empty ones only, and the streaming call has not failed.             *)
(***************************************************************************)
C13_AbsentPathIsEmptyFragment ==
    (Streaming /\ \A i \in 1..Len(lines) : ~IsMalformed(lines[i])) =>
        /\ pc # "raised"
        /\ Acc.choices[1].message.content = Concat(Fragments(lines))
        /\ stream_callback # "none" => calls = NonEmpty(Fragments(lines))
        /\ Returned => result = accumulated_response

(***************************************************************************)
(* C14.  In non-blocking mode the callback of a fragment has run to        *)
(* completion before the next line is taken from the line source: at most  *)
(* one callback is in progress (exactly while the handler is suspended on  *)
(* it), the callbacks complete in the order the fragments arrived, and     *)
(* whenever the handler takes a line, returns or fails, every callback     *)
(* that was called has completed.                                          *)
(***************************************************************************)
IsPrefixOf(s, t) == Len(s) <= Len(t) /\ s = SubSeq(t, 1, Len(s))

InProgress == Len(started) - Len(finished)

C14_State ==
    (mode = "async" /\ Streaming) =>
        /\ InProgress \in {0, 1}
        /\ InProgress = 1 <=> pc = "callback"
        /\ IsPrefixOf(finished, started)
        /\ started = calls
        /\ IsPrefixOf(finished, NonEmpty(Fragments(lines)))
        /\ pc # "callback" => finished = calls

C14_Step ==
    (mode = "async" /\ lines' # lines) => finished = calls

C14_CallbackCompletesBeforeNextLine == []C14_State /\ [][C14_Step]_vars

C14_Witness ==
    /\ mode = "async" /\ pc = "callback"
    /\ lines = <<DataLine([json |-> ChunkHel]), DataLine([json |-> ChunkLo])>>
    /\ started = <<"Hel", "lo">>
    /\ finished = <<"Hel">>

(***************************************************************************)
(* C15.  (as claimed) In blocking mode with an asynchronous callback,      *)
(* dispatching a callback never includes its completion, whether the       *)
(* thread has a running event loop or not: the step that makes the call    *)
(* leaves the completed callbacks as they were.                            *)
(***************************************************************************)
BlockingWithAsyncCallback == mode = "sync" /\ stream_callback = "async" /\ Streaming

C15_Dispatch ==
    (BlockingWithAsyncCallback /\ calls' # calls) => finished' = finished

C15_FireAndForgetInEveryCase == [][C15_Dispatch]_vars

(***************************************************************************)
(* C15 (amended).  In blocking mode with an asynchronous callback the      *)
(* callbacks are dispatched once per non-empty fragment in arrival order.  *)
(* With a running event loop dispatch is fire-and-forget: the callback is  *)
(* queued as a task, and while lines are consumed none has begun or        *)
(* completed.  Without one each callback is run to completion on a loop    *)
(* of its own before the next line is processed.                           *)
(***************************************************************************)
C15_State ==
    BlockingWithAsyncCallback =>
        /\ calls = NonEmpty(Fragments(lines))
        /\ running_loop =>
              /\ started \o tasks = calls
              /\ finished = started
              /\ pc = "iter" => started = <<>>
        /\ ~running_loop => (tasks = <<>> /\ started = calls /\ finished = calls)

C15_DispatchStep ==
    (BlockingWithAsyncCallback /\ calls' # calls) =>
        /\ \E l \in Lines : Fragment(l) # "" /\ calls' = Append(calls, Fragment(l))
        /\ running_loop => (finished' = finished /\ started' = started)
        /\ ~running_loop => finished' = calls'

C15_DispatchInArrivalOrder == []C15_State /\ [][C15_DispatchStep]_vars

C15_Witness ==
    /\ mode = "sync" /\ stream_callback = "async" /\ running_loop
    /\ pc = "iter"
    /\ lines = <<DataLine([json |-> ChunkHel]), DataLine([json |-> ChunkLo])>>
    /\ calls = <<"Hel", "lo">> /\ tasks = <<"Hel", "lo">>
    /\ started = <<>> /\ finished = <<>>

(***************************************************************************)
(* C16.  (as claimed) The object field of the accumulated response, and    *)
(* of the returned result, is "chat.completion" in every state, whatever   *)
(* top-level keys the consumed chunks carry.                               *)
(***************************************************************************)
C16_ObjectIsConstant ==
    Streaming =>
        /\ Acc.object = "chat.completion"
        /\ Returned => result[1].object = "chat.completion"

(***************************************************************************)
(* C17.  A call whose response has a non-2xx status has failed with the    *)
(* status error before anything of the body was interpreted: in both modes *)
(* nothing was returned, the accumulator was not started, no line was      *)
(* taken and the callback was neither called nor queued.                   *)
(***************************************************************************)
StatusErrors == {"HTTPError", "ClientResponseError"}

\* The call ended with the error raise_for_status raises.
NonSuccessStatus ==
    /\ error # Nothing
    /\ error[1].cause # <<>>
    /\ error[1].cause[1].kind \in StatusErrors

C17_NonSuccessFailsBeforeBody ==
    NonSuccessStatus =>
        /\ pc = "raised"
        /\ result = Nothing
        /\ accumulated_response = Nothing
        /\ lines = <<>>
        /\ calls = <<>> /\ started = <<>> /\ finished = <<>> /\ tasks = <<>>
        /\ Len(posted) = 1

C17_Witness ==
    /\ NonSuccessStatus
    /\ mode = "sync" /\ stream_callback = "sync" /\ request[1].stream
    /\ error[1].cause[1].kind = "HTTPError"
    /\ pc = "raised"

(***************************************************************************)
(* C18.  The blocking and the non-blocking accumulator are equivalent: on  *)
(* the lines consumed so far (every prefix of every line sequence, in      *)
(* either mode) both give the same dict, the same sequence of fragments    *)
(* passed to the callback and the same outcome (still running, or the same *)
(* exception), and the running call, whichever handler it uses, is in that *)
(* state and returns that dict.                                            *)
(***************************************************************************)
C18_HandlersAreEquivalent ==
    Streaming =>
        LET s == sync_run(stream_callback, lines)
            a == async_run(stream_callback, lines)
        IN  /\ s.acc = a.acc
            /\ s.calls = a.calls
            /\ s.exc = a.exc
            /\ Acc = s.acc /\ Acc = a.acc
            /\ calls = s.calls /\ calls = a.calls
            /\ (pc = "raised") = (a.exc # None)
            /\ pc = "raised" => error[1].kind = s.exc /\ error[1].kind = a.exc
            /\ Returned => result[1] = s.acc /\ result[1] = a.acc

C18_Witness ==
    /\ Returned
    /\ mode = "async" /\ stream_callback = "async"
    /\ lines = <<DataLine([json |-> ChunkHel]), DataLine([json |-> ChunkLo]),
                 DataLine([json |-> ChunkStop])>>
    /\ result[1] = sync_run("sync", lines).acc
    /\ result[1].choices[1].finish_reason = "stop"
    /\ calls = <<"Hel", "lo">>

(***************************************************************************)
(* C19.  When the blocking call is made with an asynchronous callback from *)
(* a thread with a running event loop, each call of the callback only      *)
(* queues a task: while the handler consumes lines no callback body has    *)
(* begun; the bodies begin only after the handler has left with the whole  *)
(* stream consumed, one at a time in the order the fragments arrived, and  *)
(* only when the loop runs them (they may stay queued).                    *)
(***************************************************************************)
QueuedOnLoop == BlockingWithAsyncCallback /\ running_loop

C19_State ==
    QueuedOnLoop =>
        /\ calls = NonEmpty(Fragments(lines))
        /\ started \o tasks = calls
        /\ pc = "iter" => (started = <<>> /\ finished = <<>>)
        /\ (started # <<>> /\ error = Nothing) => (Returned /\ result = accumulated_response)

C19_Step ==
    QueuedOnLoop =>
        /\ calls' # calls => (tasks' = Append(tasks, calls'[Len(calls')]) /\ started' = started)
        /\ started' # started =>
              /\ pc # "iter" /\ pc' = pc /\ lines' = lines
              /\ tasks # <<>>
              /\ started' = Append(started, Head(tasks))
              /\ tasks' = Tail(tasks)

C19_TasksStartAfterReturn == []C19_State /\ [][C19_Step]_vars

\* The handler has returned; the loop has run the first task, the second is
\* still queued.
C19_Witness ==
    /\ QueuedOnLoop /\ Returned
    /\ lines = <<DataLine([json |-> ChunkHel]), DataLine([json |-> ChunkLo]), DoneLine>>
    /\ started = <<"Hel">> /\ tasks = <<"lo">>

(***************************************************************************)
(* C20.  With a callback, the concatenation of the fragments it was called *)
(* with, in call order, is the accumulated content in every state and the  *)
(* returned message.content when the call returns.  When the callback is   *)
(* called for a fragment, the chunk of that fragment is already merged:    *)
(* the content is the content before it followed by the fragment, and the  *)
(* chunk's finish_reason and usage, where it has them, are those of the    *)
(* dict; this is also the dict while an awaited callback is in progress.   *)
(***************************************************************************)
\* The dict d has chunk merged and its content ends with fragment f after
\* the content before.
Merged(d, before, line, f) ==
    /\ IsChunkLine(line)
    /\ f = Fragment(line)
    /\ d.choices[1].message.content = before \o f
    /\ d.choices[1].delta.content = before \o f
    /\ "finish_reason" \in DOMAIN ChunkOf(line).choices[1] =>
           d.choices[1].finish_reason = ChunkOf(line).choices[1].finish_reason
    /\ "usage" \in DOMAIN ChunkOf(line) => d.usage = ChunkOf(line).usage

C20_State ==
    (Streaming /\ stream_callback # "none") =>
        /\ Concat(calls) = Acc.choices[1].message.content
        /\ Returned => Concat(calls) = result[1].choices[1].message.content
        /\ pc = "callback" =>
              Merged(Acc, Concat(finished), lines[Len(lines)], started[Len(started)])

C20_Step ==
    (Streaming /\ calls' # calls) =>
        /\ lines' # lines
        /\ calls' = Append(calls, calls'[Len(calls')])
        /\ Merged(accumulated_response'[1], Acc.choices[1].message.content,
                  lines'[Len(lines')], calls'[Len(calls')])

C20_CallbackSeesMergedFragment == []C20_State /\ [][C20_Step]_vars

C20_Witness ==
    /\ Returned
    /\ mode = "sync" /\ stream_callback = "sync"
    /\ lines = <<DataLine([json |-> ChunkHel]), DataLine([json |-> ChunkLo]),
                 DataLine([json |-> ChunkBang])>>
    /\ calls = <<"Hel", "lo", "!">>
    /\ result[1].choices[1].message.content = "Hello!"

====
